---- MODULE Spec2Model ----
(***************************************************************************)
(* State-machine model of src/app.py: the scheduled disbursement job       *)
(* (job), the balance resolver (get_distributor_balance) and the payment   *)
(* submitter with its recursive retry handler (send_payment).              *)
(*                                                                         *)
(* Amounts are whole numbers of stroops (1 XLM = 10^7 stroops), so         *)
(* round(x, 7) is rounding to a whole stroop.                              *)
(***************************************************************************)
EXTENDS Integers, Sequences, FiniteSets

(* ------------------------------ bounds --------------------------------- *)

\* Largest native balance (in stroops) the ledger reports in the model.
MaxBalance == 4

\* Number of nested send_payment frames the interpreter allows before a
\* call raises RecursionError.  CPython's default limit is 1000 frames; the
\* model scales it down.  It is larger than the longest escalation chain
\* (100, 200, ..., 3200), so the limit never cuts a fee escalation short,
\* and leaves room for one more retry after a full chain and a reset.
RecursionLimit == 8

(* ------------------------- program constants --------------------------- *)

\* send_payment(..., min_gas_fee = 100)
DEFAULT_MIN_GAS_FEE == 100

\* if min_gas_fee < 2000
FEE_RETRY_THRESHOLD == 2000

\* time.sleep(5) after a 504
GATEWAY_TIMEOUT_SLEEP == 5

\* time.sleep(1) after tx_bad_seq, tx_too_late, tx_insufficient_fee
BRIEF_SLEEP == 1

\* e.status == 504
GATEWAY_TIMEOUT == 504

(* --------------------------- the environment --------------------------- *)

\* Fees server.fetch_base_fee() may suggest.
NetFees == {100, 250}

NoCodes == "none"

\* Exceptions raised by the ledger client: an HTTP-like status and the
\* result codes of e.extras (transaction code, list of operation codes).
MkErr(s, t, o) == [status |-> s, tx |-> t, ops |-> o]

CodePairs ==
    { <<NoCodes, <<>> >>,
      <<"tx_bad_seq", <<>> >>,
      <<"tx_too_late", <<>> >>,
      <<"tx_insufficient_fee", <<>> >>,
      <<"tx_failed", <<>> >>,
      <<"tx_failed", <<"op_underfunded">> >>,
      <<"tx_failed", <<"op_no_destination", "op_underfunded">> >> }

SubmitErrors == { MkErr(s, c[1], c[2]) : s \in {GATEWAY_TIMEOUT, 400}, c \in CodePairs }

\* load_account and fetch_base_fee are plain queries: their errors carry a
\* status but no transaction result codes.
QueryErrors == { MkErr(s, NoCodes, <<>>) : s \in {GATEWAY_TIMEOUT, 400} }

\* RecursionError has neither a status nor extras.
RecursionError == MkErr(0, NoCodes, <<>>)

\* Neither has the OSError open() or write() raise inside log_result.
OSError == MkErr(0, NoCodes, <<>>)

NoErr == MkErr(-1, NoCodes, <<>>)

\* Responses submit_transaction returns without raising.
Responses == { [successful |-> TRUE, tx |-> NoCodes],
               [successful |-> FALSE, tx |-> "tx_bad_seq"],
               [successful |-> FALSE, tx |-> "tx_too_late"],
               [successful |-> FALSE, tx |-> "tx_failed"] }

\* The local name response before line 94 binds it.
NoSubmitResponse == [successful |-> FALSE, tx |-> "unbound"]

\* Answers of server.accounts().account_id(..).call(): a transport error
\* ("error"), a body without a usable 'balances' list ("malformed"), or a
\* body with a list of balance entries ("ok").
AssetTypes == {"native", "credit_alphanum4"}

BalanceEntries == [asset_type : AssetTypes, balance : -1..MaxBalance]

BalanceLists ==
    { <<>> }
    \cup { <<a>> : a \in BalanceEntries }
    \cup { <<a, b>> : a \in BalanceEntries, b \in BalanceEntries }

AccountResponses ==
    { [kind |-> k, balances |-> <<>>] : k \in {"error", "malformed"} }
    \cup { [kind |-> "ok", balances |-> l] : l \in BalanceLists }

NoResponse == [kind |-> "none", balances |-> <<>>]

\* The account object load_account returns: the frame that loaded it and the
\* number of transactions built from it (TransactionBuilder.build() advances
\* the sequence number of the object in place).
NoAccount == [loaded_by |-> 0, built |-> 0]

(* --------------------------- pure functions ---------------------------- *)

Max(a, b) == IF a >= b THEN a ELSE b

\* log_result: the entry appended to the tick's log file.
LogEntry(amt, success, message) ==
    [amount |-> amt, success |-> success, message |-> IF success THEN "" ELSE message]

MSG_INSUFFICIENT_BALANCE == "Insufficient balance"
MSG_RESPONSE == "Transaction response: <response>"
MSG_BUSY == "Transaction Failed: Network is too busy at this time."
MSG_UNDERFUNDED == "Transaction failed: XLM amount is insufficient in distribution account."
MSG_OTHER == "Transaction failed: <e>"

\* The for-loop of get_distributor_balance: index of the first entry whose
\* asset_type is 'native', 0 when there is none.
RECURSIVE FirstNative(_, _)
FirstNative(list, i) ==
    IF i > Len(list) THEN 0
    ELSE IF list[i].asset_type = "native" THEN i
    ELSE FirstNative(list, i + 1)

\* Whether get_distributor_balance ends in its except clause: the query
\* failed, the body has no usable 'balances', or no entry is native.
BalanceFetchFails(resp) ==
    \/ resp.kind # "ok"
    \/ FirstNative(resp.balances, 1) = 0

\* Variant: the first balance entry is taken without looking at its type.
get_distributor_balance_first(resp) ==
    IF resp.kind # "ok" \/ Len(resp.balances) = 0 THEN 0
    ELSE resp.balances[1].balance

\* get_distributor_balance: the native balance, or 0 on any exception.
get_distributor_balance(resp) ==
    IF BalanceFetchFails(resp) THEN 0
    ELSE resp.balances[FirstNative(resp.balances, 1)].balance

\* Variant: the test written as balance < 0.
InsufficientBalance_strict(b) == b < 0

\* job, line 158: if balance <= 0
InsufficientBalance(b) == b <= 0

\* Variant: truncation instead of rounding.
RoundQuarter_trunc(b) == { b \div 4 }

\* round(balance * 0.25, 7) in stroops: the whole numbers nearest to
\* balance / 4.  An exact half (balance % 4 = 2) is not representable in
\* binary floating point, so either neighbour can come out (2 -> 0 but
\* 22 -> 6 under CPython).
RoundQuarter(b) ==
    IF b % 4 = 2 THEN { b \div 4, (b \div 4) + 1 }
    ELSE IF b % 4 = 3 THEN { (b \div 4) + 1 }
    ELSE { b \div 4 }

\* The if/elif chain of send_payment's except clause: the first branch whose
\* condition the exception satisfies.
HasCodes(e) == e.tx # NoCodes

\* Variant: the result codes are looked at before the status.
Classify_codes_first(e) ==
    IF HasCodes(e) /\ e.tx = "tx_bad_seq" THEN "bad_seq"
    ELSE IF HasCodes(e) /\ e.tx = "tx_too_late" THEN "too_late"
    ELSE IF HasCodes(e) /\ e.tx = "tx_insufficient_fee" THEN "insufficient_fee"
    ELSE IF /\ HasCodes(e)
            /\ e.tx = "tx_failed"
            /\ Len(e.ops) > 0
            /\ e.ops[1] = "op_underfunded" THEN "underfunded"
    ELSE IF e.status = GATEWAY_TIMEOUT THEN "gateway_timeout"
    ELSE "other"

Classify(e) ==
    IF e.status = GATEWAY_TIMEOUT THEN "gateway_timeout"
    ELSE IF HasCodes(e) /\ e.tx = "tx_bad_seq" THEN "bad_seq"
    ELSE IF HasCodes(e) /\ e.tx = "tx_too_late" THEN "too_late"
    ELSE IF HasCodes(e) /\ e.tx = "tx_insufficient_fee" THEN "insufficient_fee"
    ELSE IF /\ HasCodes(e)
            /\ e.tx = "tx_failed"
            /\ Len(e.ops) > 0
            /\ e.ops[1] = "op_underfunded" THEN "underfunded"
    ELSE "other"

\* Variant: the final else branch retries as well.
Retries_other(kind, fee) ==
    \/ kind \in {"gateway_timeout", "bad_seq", "too_late", "other"}
    \/ kind = "insufficient_fee" /\ fee < FEE_RETRY_THRESHOLD

\* Whether the branch taken ends in a recursive send_payment call.
Retries(kind, fee) ==
    \/ kind \in {"gateway_timeout", "bad_seq", "too_late"}
    \/ kind = "insufficient_fee" /\ fee < FEE_RETRY_THRESHOLD

\* Variant: every branch sleeps the brief delay.
SleepFor_brief(kind) == BRIEF_SLEEP

\* time.sleep(..) of the branch taken.
SleepFor(kind) ==
    IF kind = "gateway_timeout" THEN GATEWAY_TIMEOUT_SLEEP ELSE BRIEF_SLEEP

\* Variant: the insufficient-fee branch adds the baseline instead of doubling.
RetryMinGasFee_add(kind, fee) ==
    IF kind = "insufficient_fee" THEN fee + DEFAULT_MIN_GAS_FEE ELSE DEFAULT_MIN_GAS_FEE

\* min_gas_fee of the recursive call: only the insufficient-fee branch
\* passes the argument (2 * min_gas_fee); the other branches omit it, so
\* the callee gets the default.
RetryMinGasFee(kind, fee) ==
    IF kind = "insufficient_fee" THEN 2 * fee ELSE DEFAULT_MIN_GAS_FEE

\* The message of the branch that gives up.
TerminalMessage(kind) ==
    IF kind = "insufficient_fee" THEN MSG_BUSY
    ELSE IF kind = "underfunded" THEN MSG_UNDERFUNDED
    ELSE MSG_OTHER

\* Variant: the level an earlier call reached is passed on.
InitialMinGasFee_leak(previous) ==
    IF previous = 0 THEN DEFAULT_MIN_GAS_FEE ELSE previous

\* job calls send_payment(log_filename, RECEIVER_ADDRESS, amount) without a
\* fourth argument, whatever level an earlier call reached.
InitialMinGasFee(previous) == DEFAULT_MIN_GAS_FEE

\* Variant: the escalation level alone is put on the transaction.
AppliedFee_level(net, fee) == fee

\* base_fee = max(base_fee, min_gas_fee)
AppliedFee(net, fee) == Max(net, fee)

(* -------------------------------- state -------------------------------- *)

VARIABLES
    pc,                  \* where the process is: "idle" is the while-True loop
    account_resp,        \* get_distributor_balance: the answer being scanned
    balance,             \* job: balance
    amount,              \* job / send_payment: amount
    depth,               \* number of send_payment frames on the stack
    min_gas_fee,         \* send_payment: min_gas_fee of the innermost frame
    distributor_account, \* send_payment: distributor_account of the innermost frame
    base_fee,            \* send_payment: base_fee of the innermost frame, 0 = unbound
    err,                 \* send_payment: the exception e of the innermost frame
    logs,                \* entries log_result wrote to this tick's log file
    last_wait,           \* duration of the latest time.sleep of this tick, 0 = none
    wait_count,          \* number of time.sleep calls of this tick
    submissions,         \* number of submit_transaction calls of this tick
    sendCalls,           \* number of times this tick's job called send_payment
    attempts,            \* number of send_payment invocations of this tick
    history,             \* ledger failures of this tick: "none", "fee", "transient" or "mixed"
    low_net,             \* every fee the network suggested in this tick was <= 100
    prev_fee,            \* min_gas_fee the latest finished send_payment ended with (until the next one works)
    answers,             \* number of answers (errors or responses) the ledger gave in this tick's send_payment
    fetch_error,         \* get_distributor_balance printed "Error fetching distributor balance"
    response,            \* send_payment: the response submit_transaction returned in this tick
    fee_retries,         \* number of tx_insufficient_fee failures of this tick that were retried
    only_timeouts,       \* every failure the ledger answered with in this tick had status 504
    job_error,           \* job: this tick printed "An error occurred during the job"
    prev_job_error,      \* job: the previous tick printed "An error occurred during the job" (until job decides)
    due,                 \* schedule: the interval has elapsed, the job should run
    running,             \* number of job() invocations in progress
    timeout_tx,          \* transaction result code carried by the latest 504 this tick retried
    network_fee,         \* line 73: what fetch_base_fee returned for the transaction being built
    applied              \* ledger: transfers of this tick that were applied

vars == << pc, account_resp, balance, amount, depth, min_gas_fee,
           distributor_account, base_fee, err, logs, last_wait, wait_count,
           submissions, sendCalls, attempts, history, low_net, prev_fee,
           answers, fetch_error, response, fee_retries, only_timeouts,
           job_error, prev_job_error, due, running, timeout_tx,
           network_fee, applied >>

jobVars == << account_resp, balance, amount >>
frameVars == << depth, min_gas_fee, distributor_account, base_fee, err >>
tickHistory == << logs, last_wait, wait_count, submissions, sendCalls, attempts,
                  history, low_net, prev_fee, answers >>

\* The module body: everything is constructed and job() is about to run
\* for the first time (line 172).
Init ==
    /\ pc = "job"
    /\ account_resp = NoResponse
    /\ balance = 0
    /\ amount = 0
    /\ depth = 0
    /\ min_gas_fee = 0
    /\ distributor_account = NoAccount
    /\ base_fee = 0
    /\ err = NoErr
    /\ logs = <<>>
    /\ last_wait = 0
    /\ wait_count = 0
    /\ submissions = 0
    /\ sendCalls = 0
    /\ attempts = 0
    /\ history = "none"
    /\ low_net = TRUE
    /\ prev_fee = 0
    /\ answers = 0
    /\ fetch_error = FALSE
    /\ response = NoSubmitResponse
    /\ fee_retries = 0
    /\ only_timeouts = TRUE
    /\ job_error = FALSE
    /\ prev_job_error = FALSE
    /\ due = FALSE
    /\ running = 1
    /\ timeout_tx = NoCodes
    /\ network_fee = 0
    /\ applied = 0

\* What a ledger failure of the given class does to the summary of the
\* failures seen so far.
NextHistory(h, kind) ==
    LET class == IF kind \in {"gateway_timeout", "bad_seq", "too_late"} THEN "transient"
                 ELSE IF kind = "insufficient_fee" THEN "fee"
                 ELSE "mixed"
    IN  IF h = "none" \/ h = class THEN class ELSE "mixed"

(* ------------------------------- actions ------------------------------- *)

\* Variant: a timer thread that also fires while send_payment sleeps.
SchedulerRuns_threaded(p) == p \in {"idle", "except"}

\* schedule.run_pending() is called from the while-True loop only (lines
\* 175-177), which the process reaches when job() has returned.
SchedulerRuns(p) == p = "idle"

\* Time passes while the process works, sleeps or waits for the network:
\* the interval of schedule.every(INTERVAL_HOURS).hours may run out.
TimePasses == due' \in {due, TRUE}

\* Lines 176-177: run_pending() finds nothing due and the loop sleeps on,
\* until the interval is over.
loop_wait ==
    /\ pc = "idle"
    /\ ~due
    /\ due' = TRUE
    /\ UNCHANGED << pc, jobVars, frameVars, tickHistory, fetch_error, response,
                    fee_retries, only_timeouts, job_error, prev_job_error, running,
                    timeout_tx >>
    /\ UNCHANGED << network_fee, applied >>

\* while True: schedule.run_pending() finds the job due and calls job().
\* A new tick starts: a new log file, nothing slept or submitted yet.
run_pending ==
    /\ SchedulerRuns(pc)
    /\ due
    /\ due' = FALSE
    /\ running' = running + 1
    /\ pc' = "job"
    /\ account_resp' = NoResponse
    /\ balance' = 0
    /\ amount' = 0
    /\ logs' = <<>>
    /\ last_wait' = 0
    /\ wait_count' = 0
    /\ submissions' = 0
    /\ sendCalls' = 0
    /\ attempts' = 0
    /\ history' = "none"
    /\ low_net' = TRUE
    /\ answers' = 0
    /\ fetch_error' = FALSE
    /\ response' = NoSubmitResponse
    /\ fee_retries' = 0
    /\ only_timeouts' = TRUE
    /\ timeout_tx' = NoCodes
    /\ applied' = 0
    /\ prev_job_error' = job_error
    /\ job_error' = FALSE
    /\ UNCHANGED << frameVars, prev_fee >>
    /\ UNCHANGED << network_fee >>

\* get_distributor_balance, line 57: the account query answers.
account_call ==
    /\ pc = "job"
    /\ \E resp \in AccountResponses : account_resp' = resp
    /\ pc' = "get_balance"
    /\ UNCHANGED << balance, amount, frameVars, tickHistory, fetch_error >>
    /\ UNCHANGED << response, fee_retries, only_timeouts, job_error, prev_job_error >>
    /\ TimePasses
    /\ UNCHANGED << running, timeout_tx, network_fee, applied >>

\* get_distributor_balance, lines 58-64: scan the balances and return.
balance_return ==
    /\ pc = "get_balance"
    /\ balance' = get_distributor_balance(account_resp)
    /\ fetch_error' = BalanceFetchFails(account_resp)
    /\ account_resp' = NoResponse
    /\ pc' = "decide"
    /\ UNCHANGED << amount, frameVars, tickHistory >>
    /\ UNCHANGED << response, fee_retries, only_timeouts, job_error, prev_job_error >>
    /\ TimePasses
    /\ UNCHANGED << running, timeout_tx, network_fee, applied >>

\* job, lines 158-160: nothing to send.
job_insufficient ==
    /\ pc = "decide"
    /\ InsufficientBalance(balance)
    /\ logs' = Append(logs, LogEntry(0, FALSE, MSG_INSUFFICIENT_BALANCE))
    /\ pc' = "idle"
    /\ running' = running - 1
    /\ UNCHANGED << jobVars, frameVars, last_wait, wait_count, submissions,
                    sendCalls, attempts, history, low_net, prev_fee, answers,
                    fetch_error >>
    /\ prev_job_error' = FALSE
    /\ UNCHANGED << response, fee_retries, only_timeouts, job_error >>
    /\ TimePasses
    /\ UNCHANGED << timeout_tx, network_fee, applied >>

\* job, lines 162-164: compute the amount and call send_payment.
job_send ==
    /\ pc = "decide"
    /\ ~InsufficientBalance(balance)
    /\ \E a \in RoundQuarter(balance) : amount' = a
    /\ min_gas_fee' = InitialMinGasFee(prev_fee)
    /\ depth' = 1
    /\ distributor_account' = NoAccount
    /\ base_fee' = 0
    /\ err' = NoErr
    /\ sendCalls' = sendCalls + 1
    /\ attempts' = attempts + 1
    /\ pc' = "load"
    /\ UNCHANGED << account_resp, balance, logs, last_wait, wait_count,
                    submissions, history, low_net, prev_fee, answers, fetch_error >>
    /\ prev_job_error' = FALSE
    /\ UNCHANGED << response, fee_retries, only_timeouts, job_error >>
    /\ TimePasses
    /\ UNCHANGED << running, timeout_tx, network_fee, applied >>

\* An exception e raised inside the try block enters the except clause.
Raise(e) ==
    /\ err' = e
    /\ pc' = "except"
    /\ history' = IF e = RecursionError THEN history ELSE NextHistory(history, Classify(e))
    /\ answers' = IF e = RecursionError THEN answers ELSE answers + 1
    /\ only_timeouts' = IF e = RecursionError THEN only_timeouts
                        ELSE (only_timeouts /\ e.status = GATEWAY_TIMEOUT)

\* What the ledger may have done with a submission that was answered by the
\* exception e: a gateway timeout without a transaction result tells
\* nothing, the transaction may have been applied or not; any other error
\* means it was not applied.
LedgerOutcomes(e, n) ==
    IF e.status = GATEWAY_TIMEOUT /\ ~HasCodes(e) THEN {n, n + 1} ELSE {n}

\* send_payment, line 70: server.load_account.  In the frame that reaches
\* the interpreter's recursion limit the call raises RecursionError.
load_account ==
    /\ pc = "load"
    /\ \/ /\ depth >= RecursionLimit
          /\ Raise(RecursionError)
          /\ UNCHANGED distributor_account
       \/ /\ depth < RecursionLimit
          /\ distributor_account' = [loaded_by |-> depth, built |-> 0]
          /\ pc' = "fee"
          /\ UNCHANGED << err, history, answers, only_timeouts >>
       \/ /\ depth < RecursionLimit
          /\ \E e \in QueryErrors : Raise(e)
          /\ UNCHANGED distributor_account
    /\ prev_fee' = 0
    /\ UNCHANGED << jobVars, depth, min_gas_fee, base_fee, logs, last_wait,
                    wait_count, submissions, sendCalls, attempts, low_net,
                    fetch_error >>
    /\ TimePasses
    /\ UNCHANGED << response, fee_retries, job_error, prev_job_error, running >>
    /\ UNCHANGED << timeout_tx, network_fee, applied >>

\* send_payment, lines 73-74: server.fetch_base_fee and the max.
fetch_base_fee ==
    /\ pc = "fee"
    /\ \/ /\ \E net \in NetFees :
                /\ network_fee' = net
                /\ base_fee' = AppliedFee(net, min_gas_fee)
                /\ low_net' = (low_net /\ net <= DEFAULT_MIN_GAS_FEE)
          /\ pc' = "submit"
          /\ UNCHANGED << err, history, answers, only_timeouts >>
       \/ /\ \E e \in QueryErrors : Raise(e)
          /\ UNCHANGED << base_fee, low_net, network_fee >>
    /\ UNCHANGED << jobVars, depth, min_gas_fee, distributor_account, logs,
                    last_wait, wait_count, submissions, sendCalls, attempts, prev_fee,
                    fetch_error >>
    /\ TimePasses
    /\ UNCHANGED << response, fee_retries, job_error, prev_job_error, running >>
    /\ UNCHANGED << timeout_tx, applied >>

\* All frames of send_payment return to job, and job returns to the loop;
\* the frames' locals are gone.
Return ==
    /\ pc' = "idle"
    /\ running' = running - 1
    /\ depth' = 0
    /\ prev_fee' = min_gas_fee
    /\ min_gas_fee' = 0
    /\ distributor_account' = NoAccount
    /\ base_fee' = 0
    /\ err' = NoErr

\* send_payment, lines 77-99: build, sign and submit; a response that comes
\* back without an exception is logged, successful or not.
submit_transaction ==
    /\ pc = "submit"
    /\ submissions' = submissions + 1
    /\ network_fee' = 0
    /\ \/ /\ \E r \in Responses :
                /\ response' = r
                /\ logs' = Append(logs, IF r.successful
                                        THEN LogEntry(amount, TRUE, "")
                                        ELSE LogEntry(amount, FALSE, MSG_RESPONSE))
                /\ history' = IF r.successful THEN history ELSE "mixed"
                /\ only_timeouts' = (only_timeouts /\ r.successful)
                /\ applied' = IF r.successful THEN applied + 1 ELSE applied
          /\ answers' = answers + 1
          /\ Return
       \/ /\ \E e \in SubmitErrors :
                /\ Raise(e)
                /\ applied' \in LedgerOutcomes(e, applied)
          /\ distributor_account' =
                [distributor_account EXCEPT !.built = distributor_account.built + 1]
          /\ UNCHANGED << logs, depth, min_gas_fee, base_fee, prev_fee, response, running >>
    /\ UNCHANGED << jobVars, last_wait, wait_count, sendCalls, attempts, low_net,
                    fetch_error >>
    /\ TimePasses
    /\ UNCHANGED << fee_retries, job_error, prev_job_error, timeout_tx >>

\* Variant: the retry keeps the loaded account and resumes at line 73.
NewFrame_reuse ==
    /\ depth' = depth + 1
    /\ attempts' = attempts + 1
    /\ distributor_account' = distributor_account
    /\ base_fee' = 0
    /\ err' = NoErr
    /\ pc' = IF distributor_account = NoAccount THEN "load" ELSE "fee"

\* The frame the recursive call creates: it starts at line 70 with its
\* locals unbound.
NewFrame ==
    /\ depth' = depth + 1
    /\ attempts' = attempts + 1
    /\ distributor_account' = NoAccount
    /\ base_fee' = 0
    /\ err' = NoErr
    /\ pc' = "load"

\* Variant: the retrying branches log the failed attempt too.
except_retry_logged ==
    /\ pc = "except"
    /\ Retries(Classify(err), min_gas_fee)
    /\ logs' = Append(logs, LogEntry(amount, FALSE, MSG_OTHER))
    /\ last_wait' = SleepFor(Classify(err))
    /\ wait_count' = wait_count + 1
    /\ min_gas_fee' = RetryMinGasFee(Classify(err), min_gas_fee)
    /\ fee_retries' = IF Classify(err) = "insufficient_fee" THEN fee_retries + 1 ELSE fee_retries
    /\ timeout_tx' = IF err.status = GATEWAY_TIMEOUT THEN err.tx ELSE timeout_tx
    /\ NewFrame
    /\ UNCHANGED << jobVars, submissions, sendCalls, history, low_net, prev_fee,
                    answers, fetch_error >>
    /\ TimePasses
    /\ UNCHANGED << response, only_timeouts, job_error, prev_job_error, running >>
    /\ UNCHANGED << network_fee, applied >>

\* send_payment, lines 100-132, the branches that retry: sleep, then call
\* send_payment again.
except_retry ==
    /\ pc = "except"
    /\ Retries(Classify(err), min_gas_fee)
    /\ last_wait' = SleepFor(Classify(err))
    /\ wait_count' = wait_count + 1
    /\ min_gas_fee' = RetryMinGasFee(Classify(err), min_gas_fee)
    /\ fee_retries' = IF Classify(err) = "insufficient_fee" THEN fee_retries + 1 ELSE fee_retries
    /\ timeout_tx' = IF err.status = GATEWAY_TIMEOUT THEN err.tx ELSE timeout_tx
    /\ NewFrame
    /\ UNCHANGED << jobVars, logs, submissions, sendCalls, history, low_net, prev_fee,
                    answers, fetch_error >>
    /\ TimePasses
    /\ UNCHANGED << response, only_timeouts, job_error, prev_job_error, running >>
    /\ UNCHANGED << network_fee, applied >>

\* send_payment, lines 133-149, the branches that give up: log the failure.
except_terminal ==
    /\ pc = "except"
    /\ ~Retries(Classify(err), min_gas_fee)
    /\ logs' = Append(logs, LogEntry(amount, FALSE, TerminalMessage(Classify(err))))
    /\ Return
    /\ UNCHANGED << jobVars, last_wait, wait_count, submissions, sendCalls,
                    attempts, history, low_net, answers, fetch_error >>
    /\ UNCHANGED << response, fee_retries, only_timeouts, job_error, prev_job_error >>
    /\ TimePasses
    /\ UNCHANGED << timeout_tx, network_fee, applied >>

Next ==
    \/ run_pending
    \/ account_call
    \/ balance_return
    \/ job_insufficient
    \/ job_send
    \/ load_account
    \/ fetch_base_fee
    \/ submit_transaction
    \/ except_retry
    \/ except_terminal
    \/ loop_wait

Spec == Init /\ [][Next]_vars

(* ----------------------- a log sink that can fail ---------------------- *)

\* Variant: job without its try/except; the exception ends the process.
JobExcept_escape ==
    /\ job_error' = FALSE
    /\ running' = running - 1
    /\ pc' = "crashed"

\* job, lines 165-166: the except clause prints the error; job returns to
\* the scheduling loop.
JobExcept ==
    /\ job_error' = TRUE
    /\ running' = running - 1
    /\ pc' = "idle"

\* job, line 159: log_result raises while writing "Insufficient balance".
job_insufficient_sink_fails ==
    /\ pc = "decide"
    /\ InsufficientBalance(balance)
    /\ JobExcept
    /\ prev_job_error' = FALSE
    /\ UNCHANGED << jobVars, frameVars, tickHistory, fetch_error, response,
                    fee_retries, only_timeouts >>
    /\ TimePasses
    /\ UNCHANGED << timeout_tx, network_fee, applied >>

\* send_payment, lines 94-99: the ledger returns a response but log_result
\* raises; the call is inside the try block, so the except clause catches
\* the OSError.
submit_sink_fails ==
    /\ pc = "submit"
    /\ submissions' = submissions + 1
    /\ network_fee' = 0
    /\ \E r \in Responses :
          /\ response' = r
          /\ history' = IF r.successful THEN history ELSE "mixed"
          /\ only_timeouts' = (only_timeouts /\ r.successful)
          /\ applied' = IF r.successful THEN applied + 1 ELSE applied
    /\ answers' = answers + 1
    /\ distributor_account' =
          [distributor_account EXCEPT !.built = distributor_account.built + 1]
    /\ err' = OSError
    /\ pc' = "except"
    /\ UNCHANGED << jobVars, depth, min_gas_fee, base_fee, logs, last_wait,
                    wait_count, sendCalls, attempts, low_net, prev_fee, fetch_error,
                    fee_retries, job_error, prev_job_error >>
    /\ TimePasses
    /\ UNCHANGED << running, timeout_tx >>

\* send_payment, lines 133-149: log_result raises inside the except clause;
\* the exception leaves every send_payment frame (their calls are not in a
\* try block) and reaches job.
except_terminal_sink_fails ==
    /\ pc = "except"
    /\ ~Retries(Classify(err), min_gas_fee)
    /\ JobExcept
    /\ depth' = 0
    /\ prev_fee' = min_gas_fee
    /\ min_gas_fee' = 0
    /\ distributor_account' = NoAccount
    /\ base_fee' = 0
    /\ err' = NoErr
    /\ UNCHANGED << jobVars, logs, last_wait, wait_count, submissions, sendCalls,
                    attempts, history, low_net, answers, fetch_error, response,
                    fee_retries, only_timeouts, prev_job_error >>
    /\ TimePasses
    /\ UNCHANGED << timeout_tx, network_fee, applied >>

NextSinkFaults ==
    \/ run_pending
    \/ account_call
    \/ balance_return
    \/ job_insufficient
    \/ job_send
    \/ load_account
    \/ fetch_base_fee
    \/ submit_transaction
    \/ except_retry
    \/ except_terminal
    \/ loop_wait
    \/ job_insufficient_sink_fails
    \/ submit_sink_fails
    \/ except_terminal_sink_fails

SpecSinkFaults == Init /\ [][NextSinkFaults]_vars

(* ------------------------------ properties ----------------------------- *)

SendPcs == {"load", "fee", "submit", "except"}

SuccessEntry == [amount |-> amount, success |-> TRUE, message |-> ""]

FailureEntry(message) == [amount |-> amount, success |-> FALSE, message |-> message]

\* C1: a send_payment call hands exactly one entry to log_result: none
\* while its attempts are still running or retrying, exactly one once it has
\* returned; and no tick's log ever holds more than one entry.
C1_ExactlyOneSinkEntry ==
    /\ Len(logs) <= 1
    /\ pc \in SendPcs => logs = <<>>
    /\ (pc = "idle" /\ sendCalls = 1) => Len(logs) = 1

\* A call that returned after at least two retries, with its single entry.
C1_Witness ==
    /\ pc = "idle"
    /\ sendCalls = 1
    /\ attempts >= 3
    /\ Len(logs) = 1

FeeLadder == << 100, 200, 400, 800, 1600 >>

\* C2: when every failure of the call is tx_insufficient_fee and the network
\* never suggests more than the baseline, attempt k is submitted with fee
\* 100 * 2^(k-1), there are at most five attempts, and no fee exceeds 2000.
C2_FeeSequence ==
    (pc \in SendPcs /\ history \in {"none", "fee"} /\ low_net) =>
        /\ attempts <= 5
        /\ base_fee <= 2000
        /\ pc = "submit" => base_fee = FeeLadder[attempts]

\* C3: within one send_payment call min_gas_fee never decreases from one
\* attempt to the next.
C3_LevelNeverDecreases ==
    [][(depth >= 1 /\ depth' = depth + 1) => min_gas_fee' >= min_gas_fee]_vars

\* C4: the first attempt of every tick runs with min_gas_fee = 100, whatever
\* level the previous call ended with.
C4_BaselineAtTickStart ==
    (pc \in SendPcs /\ attempts = 1) => min_gas_fee = 100

\* The first attempt of a tick that follows a call escalated to 3200.
C4_Witness ==
    /\ pc = "load"
    /\ attempts = 1
    /\ prev_fee = 3200
    /\ min_gas_fee = 100

\* C5: with a resolved balance <= 0 send_payment is never called, nothing
\* is submitted, and the tick ends with the single failed entry
\* "Insufficient balance".
C5_NoSendOnEmptyBalance ==
    /\ balance <= 0 => (sendCalls = 0 /\ attempts = 0 /\ submissions = 0)
    /\ (pc = "idle" /\ balance <= 0) =>
          logs = << [amount |-> 0, success |-> FALSE, message |-> "Insufficient balance"] >>

\* A tick that ended after the balance fetch failed and returned 0.
C5_Witness ==
    /\ pc = "idle"
    /\ fetch_error
    /\ balance = 0
    /\ Len(logs) = 1
    /\ sendCalls = 0

\* C6: every submission is built from an account the submitting frame loaded
\* itself and that no transaction was built from before.
C6_FreshLoadPerSubmission ==
    /\ pc = "submit" => distributor_account = [loaded_by |-> depth, built |-> 0]
    /\ distributor_account.built <= 1

\* A retry about to submit, after an earlier submission of the call failed.
C6_Witness ==
    /\ pc = "submit"
    /\ depth >= 2
    /\ submissions >= 1
    /\ distributor_account.loaded_by = depth

\* C7: a call in which the ledger answered only with transient failures
\* (504, tx_bad_seq, tx_too_late) ends only with a Success entry, after one
\* attempt per answer.
C7_TransientThenSuccess ==
    (pc = "idle" /\ sendCalls = 1 /\ history \in {"none", "transient"}) =>
        /\ logs = << SuccessEntry >>
        /\ attempts = answers

NoEarlierRow(e) ==
    /\ e.status # 504
    /\ e.tx \notin {"tx_bad_seq", "tx_too_late", "tx_insufficient_fee"}

IsUnderfunded(e) ==
    /\ e.tx = "tx_failed"
    /\ Len(e.ops) > 0
    /\ e.ops[1] = "op_underfunded"

\* C8: an exception that matches none of the retrying rows (tx_failed with
\* op_underfunded, or anything unrecognised, wherever in the try block it
\* was raised) ends the call in the very next step: one failed entry, no
\* sleep, no new attempt, no submission.
C8_TerminalAtOnce ==
    [][(pc = "except" /\ NoEarlierRow(err)) =>
          /\ pc' = "idle"
          /\ logs' = Append(logs, FailureEntry(
                        IF IsUnderfunded(err)
                        THEN "Transaction failed: XLM amount is insufficient in distribution account."
                        ELSE "Transaction failed: <e>"))
          /\ wait_count' = wait_count
          /\ attempts' = attempts
          /\ submissions' = submissions]_vars

\* A call ended by op_underfunded on its first attempt.
C8_Witness ==
    /\ pc = "idle"
    /\ attempts = 1
    /\ wait_count = 0
    /\ submissions = 1
    /\ Len(logs) = 1
    /\ logs[1].message = "Transaction failed: XLM amount is insufficient in distribution account."

\* C9: every retry sleeps exactly once, 5 seconds after a 504 and 1 second
\* after any other retried failure; nothing else sleeps, so the number of
\* sleeps is always the number of attempts minus one.
C9_OneWaitPerRetry ==
    [][/\ (pc = "except" /\ attempts' = attempts + 1) =>
              /\ wait_count' = wait_count + 1
              /\ last_wait' = IF err.status = 504 THEN 5 ELSE 1
       /\ (wait_count' # wait_count /\ pc # "idle") =>
              (pc = "except" /\ attempts' = attempts + 1)
       /\ pc' = "idle" => (wait_count' = wait_count /\ last_wait' = last_wait)
       /\ wait_count' = IF attempts' = 0 THEN 0 ELSE attempts' - 1]_vars

\* One 504 followed by success: one 5-second sleep, one Success entry.
C9_Witness ==
    /\ pc = "idle"
    /\ attempts = 2
    /\ wait_count = 1
    /\ last_wait = 5
    /\ logs = << SuccessEntry >>

\* C10: the amount handed to send_payment is a whole number of stroops
\* nearest to balance / 4, is not negative and is not above the balance.
C10_QuarterOfBalance ==
    sendCalls = 1 =>
        /\ balance > 0
        /\ amount >= 0
        /\ amount <= balance
        /\ 4 * amount - balance \in -2..2

\* A balance of 3 stroops, rounded up to an amount of 1.
C10_Witness ==
    /\ sendCalls = 1
    /\ pc = "load"
    /\ balance = 3
    /\ amount = 1

\* C11: a response that comes back with successful = false and the result
\* code tx_bad_seq or tx_too_late is handled like the raised error with that
\* code: no sink entry, a 1-second sleep and a new attempt.
C11_FailedResponseClassified ==
    [][(pc = "submit" /\ ~response'.successful
            /\ response'.tx \in {"tx_bad_seq", "tx_too_late"}) =>
          /\ logs' = logs
          /\ wait_count' = wait_count + 1
          /\ last_wait' = 1
          /\ attempts' = attempts + 1]_vars

\* C12: an exception classified as tx_insufficient_fee (so not carrying
\* status 504), handled in a frame whose fee level min_gas_fee is below
\* 2000, leads to a 1-second sleep and a new attempt at twice the level,
\* with no sink entry; at a level of 2000 or more it ends the call with the
\* single "network is too busy" failure entry, no sleep and no new attempt.
C12_InsufficientFeeBranch ==
    [][(pc = "except" /\ err.status # 504 /\ err.tx = "tx_insufficient_fee") =>
          IF min_gas_fee < 2000
          THEN /\ pc' = "load"
               /\ attempts' = attempts + 1
               /\ wait_count' = wait_count + 1
               /\ last_wait' = 1
               /\ min_gas_fee' = 2 * min_gas_fee
               /\ logs' = logs
          ELSE /\ pc' = "idle"
               /\ attempts' = attempts
               /\ wait_count' = wait_count
               /\ logs' = Append(logs, FailureEntry(
                             "Transaction Failed: Network is too busy at this time."))]_vars

\* A call that doubled the level five times and then gave up at 3200.
C12_Witness ==
    /\ pc = "idle"
    /\ history = "fee"
    /\ attempts = 6
    /\ wait_count = 5
    /\ prev_fee = 3200
    /\ Len(logs) = 1
    /\ logs[1].message = "Transaction Failed: Network is too busy at this time."

\* C13: the fee cap bounds the insufficient-fee retries of one call: the
\* level doubles from 100 and is retried only below 2000, so whatever other
\* failures come in between, at most five tx_insufficient_fee failures are
\* retried.
C13_FeeRetriesBounded ==
    fee_retries <= 5

\* C14: 504s are retried without limit: a call to which the ledger has so
\* far answered with nothing but 504 failures has not ended and has handed
\* nothing to the sink.
C14_TimeoutsRetriedForever ==
    (sendCalls = 1 /\ answers >= 1 /\ only_timeouts /\ response = NoSubmitResponse) =>
        /\ pc \in SendPcs
        /\ logs = <<>>

\* C15: whatever goes wrong in a tick (the balance fetch fails, the
\* submission ends in a terminal failure, an exception reaches job), the
\* process stays in its scheduling loop: the tick ends in the while-True
\* loop, and the tick that follows starts from a clean state.
C15_TickFailuresContained ==
    /\ pc \in {"idle", "job", "get_balance", "decide"} \cup SendPcs
    /\ job_error => pc = "idle"
    /\ (pc \in {"idle", "job", "get_balance", "decide"}) => depth = 0
    /\ (pc \in {"job", "get_balance", "decide"}) =>
          /\ logs = <<>>
          /\ ~job_error
          /\ sendCalls = 0
          /\ attempts = 0
          /\ submissions = 0

\* A tick that resolves its balance normally right after a tick that ended
\* with an exception caught by job.
C15_Witness ==
    /\ pc = "decide"
    /\ prev_job_error
    /\ ~job_error
    /\ ~fetch_error
    /\ balance > 0

IsNative(entry) == entry.asset_type = "native"

\* C16: get_distributor_balance returns to job in every case: with the
\* amount of the native entry when the answer has one (the other entries
\* are skipped), with 0 when the query failed, the body is malformed or no
\* entry is native; no exception reaches job.
C16_NativeBalanceOrZero ==
    [][pc = "get_balance" =>
          /\ pc' = "decide"
          /\ ~job_error'
          /\ IF /\ account_resp.kind = "ok"
                /\ \E i \in 1..Len(account_resp.balances) : IsNative(account_resp.balances[i])
             THEN \E i \in 1..Len(account_resp.balances) :
                     /\ IsNative(account_resp.balances[i])
                     /\ \A j \in 1..(i - 1) : ~IsNative(account_resp.balances[j])
                     /\ balance' = account_resp.balances[i].balance
                     /\ ~fetch_error'
             ELSE balance' = 0 /\ fetch_error']_vars

\* The balance resolver returned the native balance of 3 stroops.
C16_Witness ==
    /\ pc = "decide"
    /\ ~fetch_error
    /\ balance = 3

\* C17: at most one job() invocation is in progress at any time, and a new
\* one starts only from the scheduling loop, after the previous one has
\* returned, also when the interval elapsed while it was still running.
C17_TicksNeverOverlap ==
    /\ running \in {0, 1}
    /\ running = 0 <=> pc = "idle"

\* A tick in its second attempt, after a sleep, with the interval already
\* over.
C17_Witness ==
    /\ pc = "load"
    /\ attempts = 2
    /\ wait_count = 1
    /\ due
    /\ running = 1

\* C18: the status test comes first: an exception with status 504 takes the
\* gateway-timeout branch (5-second sleep, new attempt, no sink entry)
\* whatever result codes it carries and whatever the fee level is.
C18_TimeoutRowFirst ==
    [][(pc = "except" /\ err.status = 504) =>
          /\ pc' = "load"
          /\ attempts' = attempts + 1
          /\ wait_count' = wait_count + 1
          /\ last_wait' = 5
          /\ logs' = logs]_vars

\* Five insufficient-fee retries took the level to 3200; the sixth attempt
\* failed with a 504 that carried tx_insufficient_fee and was retried as a
\* timeout.
C18_Witness ==
    /\ pc = "load"
    /\ attempts = 7
    /\ fee_retries = 5
    /\ wait_count = 6
    /\ last_wait = 5
    /\ timeout_tx = "tx_insufficient_fee"
    /\ logs = <<>>

\* C19: the fee per operation of every transaction about to be built and
\* submitted is the larger of the fee the network suggested and the fee level
\* of the attempt: it is one of the two and below neither.
C19_FeeIsMaxOfNetworkAndLevel ==
    pc = "submit" =>
        /\ base_fee \in {network_fee, min_gas_fee}
        /\ base_fee >= network_fee
        /\ base_fee >= min_gas_fee

\* A third attempt, at level 400 after two doublings, while the network
\* suggests 250: the transaction is about to be built with 400.
C19_Witness ==
    /\ pc = "submit"
    /\ attempts = 3
    /\ min_gas_fee = 400
    /\ network_fee = 250
    /\ base_fee = 400

\* C20: of the submissions one tick makes, the ledger applies at most one.
C20_AtMostOneTransferApplied ==
    applied <= 1

====
